---- MODULE Spec2Model ----
(***************************************************************************)
(* Lineup Portfolio Optimizer of athena-v2 (backend/modules/m4_optimizer). *)
(*                                                                         *)
(* State machine of LinearProgrammingOptimizer.optimize_lineups: player    *)
(* filtering, the generate-many / solve-one loop with its two ledgers      *)
(* (initial_lineups, used_combinations), the constraints that              *)
(* ConstraintManager adds to every single-lineup problem, and the three    *)
(* return paths of _generate_lineup_portfolio.                             *)
(*                                                                         *)
(* Numbers: salaries and the salary cap are in dollars.  max_exposure and  *)
(* min_exposure are fractions num/den with den a power of two, for which   *)
(* the float product max_exposure * total_lineups of the source is exact   *)
(* and int(...) is integer division.  ceiling_points and                   *)
(* projected_ownership are integers chosen so that the leveraged ceiling   *)
(* ceiling / (ownership / 100) is an integer.                              *)
(***************************************************************************)
EXTENDS Integers, Sequences, FiniteSets, TLC

\* ------------------------------------------------------------------------
\* Bounds of the model
\* ------------------------------------------------------------------------

\* largest settings.lineup_count a run is started with
MaxLineupCount == 2

\* solves of one run that may hit the solver's time limit
MaxTimeouts == 1

\* centroid distances are drawn from 0..MaxDistance
MaxDistance == 1

\* ------------------------------------------------------------------------
\* Program constants
\* ------------------------------------------------------------------------

\* total_players_expr == 9 and len(selected_players) != 9
LINEUP_SIZE == 9

\* overlap_expr <= 7
MAX_OVERLAP == 7

\* if len(combination) < 8: continue
MIN_COMBINATION_LEN == 8

\* min(5000, self.lineup_count * 20)
MAX_INITIAL_POOL == 5000

POOL_FACTOR == 20

\* max_req = requirements.get('max', 99); if max_req < 99
NO_MAX == 99

\* total_lineups > 10 before the min-exposure push applies
MIN_EXPOSURE_SAMPLE == 10

\* settings.salary_cap
SALARY_CAP == 50000

\* the slice [:20] of the sorted exposures in _calculate_portfolio_stats
EXPOSURE_TOP == 20

\* ------------------------------------------------------------------------
\* Player records (the rows of the projections frame)
\* ------------------------------------------------------------------------

Positions == {"QB", "RB", "WR", "TE", "DST"}

\* players 1..9, 10..18 and 19..27 are three squads laid out
\* QB RB RB WR WR WR TE TE DST; 28 has salary 0, 29 has projected_points 0
SquadPosition == <<"QB", "RB", "RB", "WR", "WR", "WR", "TE", "TE", "DST">>

PlayerIds == 1..29

Squad(i) == (i - 1) \div 9

Slot(i) == ((i - 1) % 9) + 1

position(i) == IF i = 28 THEN "RB" ELSE IF i = 29 THEN "WR" ELSE SquadPosition[Slot(i)]

team(i) == IF i >= 28 THEN "NYJ" ELSE <<"KC", "BUF", "DAL">>[Squad(i) + 1]

game_id(i) == IF i >= 28 THEN "G2" ELSE <<"G1", "G1", "G2">>[Squad(i) + 1]

SquadSalary == <<7000, 6500, 6000, 6500, 6000, 5500, 4500, 4000, 3000>>

salary(i) == IF i = 28 THEN 0 ELSE IF i = 29 THEN 5000 ELSE SquadSalary[Slot(i)] - 500 * Squad(i)

SquadPoints == <<22, 18, 16, 17, 15, 13, 11, 9, 8>>

projected_points(i) == IF i = 28 THEN 12 ELSE IF i = 29 THEN 0 ELSE SquadPoints[Slot(i)] - Squad(i)

ceiling_points(i) == IF i >= 28 THEN 20 ELSE 2 * (SquadPoints[Slot(i)] - Squad(i))

projected_ownership(i) == IF i >= 28 THEN 10 ELSE <<20, 10, 5>>[Squad(i) + 1]

\* ObjectiveFunction.create_leveraged_ceiling_objective: the coefficient of one
\* player, ceiling / (max(ownership, 0.1) / 100)
leverage_score(i) ==
    IF projected_ownership(i) = 0
    THEN ceiling_points(i) * 1000
    ELSE (ceiling_points(i) * 100) \div projected_ownership(i)

\* ------------------------------------------------------------------------
\* Configuration
\* ------------------------------------------------------------------------

Range(lo, hi) == [min |-> lo, max |-> hi]

Frac(n, d) == [num |-> n, den |-> d]

NoRule == [type |-> "none", player_id |-> 0, min_salary |-> 0, team |-> "", max_players |-> 0]

\* _setup_constraints: default_constraints. custom_rules and objective are keys
\* that only a custom configuration brings: {} and "" stand for their absence
default_constraints ==
    [salary_cap |-> SALARY_CAP,
     positions |-> [QB |-> Range(1, 1), RB |-> Range(2, 3), WR |-> Range(3, 4),
                    TE |-> Range(1, 2), DST |-> Range(1, 1), FLEX |-> Range(1, 1)],
     stacking_rules |-> [qb_stack_min |-> 1, game_stack_max |-> 4, team_stack_max |-> 5],
     exposure_limits |-> [max_exposure |-> Frac(1, 2), min_exposure |-> Frac(0, 1)],
     diversity_requirements |-> [min_unique_players |-> 8, max_duplicate_lineups |-> 0],
     custom_rules |-> {},
     objective |-> ""]

\* _setup_constraints: default_constraints.update(custom_constraints)
setup_constraints(custom) ==
    [k \in DOMAIN default_constraints |->
        IF k \in DOMAIN custom THEN custom[k] ELSE default_constraints[k]]

\* variant: rows without projected points are kept
prepare_player_data_any_points(rows) == {i \in rows : salary(i) > 0}

\* _prepare_player_data: rows with salary > 0 and projected_points > 0
prepare_player_data(projections) ==
    {i \in projections : salary(i) > 0 /\ projected_points(i) > 0}

\* ------------------------------------------------------------------------
\* State
\* ------------------------------------------------------------------------

VARIABLES
    pc,                \* "idle", "generate", "done" or "raised" ("stacking" in SpecStacking)
    lineup_count,      \* settings.lineup_count of this run
    player_data,       \* ids of the rows left by _prepare_player_data
    constraints,       \* optimization_constraints of this run
    lineup_num,        \* attempts made so far by _generate_lineup_portfolio
    initial_lineups,   \* the candidate pool, in order of acceptance
    used_combinations, \* sorted id tuples of the accepted lineups
    status,            \* outcome of the last single-lineup solve
    timeouts,          \* solves of this run that hit the time limit
    budget_exhausted,  \* wall clock has passed optimization_timeout_minutes
    return_path,       \* how _generate_lineup_portfolio returned
    portfolio,         \* the lineups returned by the run
    projections,       \* ids of the rows optimize_lineups was called with
    portfolio_stats,   \* result['portfolio_stats']
    clustering,        \* cluster_labels and centroid distances of this run's k-means
    previous,          \* pool, clustering and portfolio of an earlier run on the same input
    qb_stack_trial     \* a selection put to the QB-stack constraints, and whether it passes

vars == <<pc, lineup_count, player_data, constraints, lineup_num, initial_lineups,
          used_combinations, status, timeouts, budget_exhausted, return_path, portfolio,
          projections, portfolio_stats, clustering, previous, qb_stack_trial>>

\* ------------------------------------------------------------------------
\* Helpers
\* ------------------------------------------------------------------------

RECURSIVE SumOver(_, _)
SumOver(f, S) ==
    IF S = {} THEN 0
    ELSE LET x == CHOOSE y \in S : TRUE IN f[x] + SumOver(f, S \ {x})

salaryOf == [i \in PlayerIds |-> salary(i)]

positionOf == [i \in PlayerIds |-> position(i)]

scoreOf == [i \in PlayerIds |-> leverage_score(i)]

total_salary(L) == SumOver(salaryOf, L)

position_count(L, pos) == Cardinality({i \in L : positionOf[i] = pos})

team_count(L, t) == Cardinality({i \in L : team(i) = t})

game_count(L, g) == Cardinality({i \in L : game_id(i) = g})

Max(S) == CHOOSE m \in S : \A x \in S : x <= m

\* ------------------------------------------------------------------------
\* ConstraintManager: each constraint as a predicate on a selection L
\* (the set of players whose binary variable is 1)
\* ------------------------------------------------------------------------

\* variant: the salary constraint left out of the problem
create_salary_constraint_absent(L) == TRUE

\* create_salary_constraint: salary_expr <= salary_cap
create_salary_constraint(L) == total_salary(L) <= constraints.salary_cap

\* create_position_constraints, one pass of the loop over position_requirements:
\* no clause when the pool has no player of that position
position_clause(pos, n) ==
    LET req == constraints.positions[pos]
        position_players == {i \in player_data : positionOf[i] = pos}
    IN  \/ position_players = {}
        \/ /\ (req.min > 0 => n >= req.min)
           /\ (req.max < NO_MAX => n <= req.max)

\* create_position_constraints: total_players_expr == 9
total_players_clause(L) == Cardinality(L) = LINEUP_SIZE

\* create_exposure_constraints: player_usage over existing_lineups
player_usage(i) ==
    Cardinality({n \in 1..Len(initial_lineups) : i \in initial_lineups[n].players})

\* variant: max_exposure * total_lineups rounded up instead of cut
max_allowed_rounded_up ==
    (constraints.exposure_limits.max_exposure.num * (Len(initial_lineups) + 1)
        + constraints.exposure_limits.max_exposure.den - 1)
        \div constraints.exposure_limits.max_exposure.den

\* int(max_exposure * total_lineups), total_lineups = len(existing_lineups) + 1
max_allowed ==
    (constraints.exposure_limits.max_exposure.num * (Len(initial_lineups) + 1))
        \div constraints.exposure_limits.max_exposure.den

\* int(min_exposure * total_lineups)
min_required ==
    (constraints.exposure_limits.min_exposure.num * (Len(initial_lineups) + 1))
        \div constraints.exposure_limits.min_exposure.den

\* variant: a player is fixed to 0 only once the usage is above max_allowed
forced_out_above(i) ==
    /\ Len(initial_lineups) > 0
    /\ player_usage(i) > max_allowed

\* variant: only a player of an existing lineup is ever fixed to 0
forced_out_used_only(i) ==
    /\ Len(initial_lineups) > 0
    /\ player_usage(i) > 0
    /\ player_usage(i) >= max_allowed

\* create_exposure_constraints: player_vars[player_id] == 0
forced_out(i) ==
    /\ Len(initial_lineups) > 0
    /\ player_usage(i) >= max_allowed

\* create_exposure_constraints: player_vars[player_id] == 1
forced_in(i) ==
    /\ Len(initial_lineups) > 0
    /\ ~(player_usage(i) >= max_allowed)
    /\ player_usage(i) < min_required
    /\ Len(initial_lineups) + 1 > MIN_EXPOSURE_SAMPLE

\* variant: no uniqueness constraint added to the problem
create_uniqueness_constraints_absent(L) == TRUE

\* create_uniqueness_constraints: overlap_expr <= 7 for each used combination
create_uniqueness_constraints(L) ==
    \A combination \in used_combinations :
        Cardinality(combination) < MIN_COMBINATION_LEN
        \/ Cardinality(combination \cap L \cap player_data) <= MAX_OVERLAP

\* ------------------------------------------------------------------------
\* _optimize_single_lineup: the 0/1 problem and its solution
\* ------------------------------------------------------------------------

\* objective of the problem: create_leveraged_ceiling_objective
objective(L) == SumOver(scoreOf, L)

\* the strategies of get_objective_function whose per-player score is a whole
\* number here (value_based, hybrid and risk_adjusted are not among the inputs)
ObjectiveTypes ==
    {"leveraged_ceiling", "projected_points", "ceiling_points", "tournament", "cash_game"}

\* get_objective_function: the per-player score of the named strategy, the
\* tournament score in hundredths and the cash_game score in quarters; an
\* unknown name falls back to the leveraged ceiling
get_objective_function(objective_type, i) ==
    CASE objective_type = "leveraged_ceiling" -> leverage_score(i)
      [] objective_type = "projected_points" -> projected_points(i)
      [] objective_type = "ceiling_points" -> ceiling_points(i)
      [] objective_type = "tournament" ->
             ceiling_points(i) * (200 - projected_ownership(i))
      [] objective_type = "cash_game" -> 3 * projected_points(i)
      [] objective_type \notin ObjectiveTypes -> leverage_score(i)

\* the players whose variable the exposure constraints fix to 0, and to 1
fixed_to_zero == {i \in player_data : forced_out(i)}

fixed_to_one == {i \in player_data : forced_in(i)}

\* every constraint _optimize_single_lineup adds to the problem: salary,
\* position clauses and total == 9, exposure clauses, uniqueness clauses
problem_constraints(L, out, inn) ==
    /\ create_salary_constraint(L)
    /\ \A pos \in DOMAIN constraints.positions :
           position_clause(pos, position_count(L, pos))
    /\ total_players_clause(L)
    /\ L \cap out = {}
    /\ inn \subseteq L
    /\ create_uniqueness_constraints(L)

\* The selections that satisfy the problem.  They are enumerated position by
\* position (every row has one of the five positions) among the players not
\* fixed to 0, which leaves out only selections that break a clause.
feasible_selections ==
    LET out == fixed_to_zero
        inn == fixed_to_one
        clause_ok(pos, n) ==
            pos \notin DOMAIN constraints.positions \/ position_clause(pos, n)
        ch(pos) ==
            {s \in SUBSET ({i \in player_data : positionOf[i] = pos} \ out) :
                clause_ok(pos, Cardinality(s))}
    IN  {L \in {qb \cup rb \cup wr \cup te \cup dst :
                    qb \in ch("QB"), rb \in ch("RB"), wr \in ch("WR"),
                    te \in ch("TE"), dst \in ch("DST")} :
            problem_constraints(L, out, inn)}

\* prob.solve with status Optimal: the selections of maximal objective
optimal_selections ==
    LET F == feasible_selections
    IN  IF F = {} THEN {}
        ELSE LET best == Max({objective(L) : L \in F})
             IN  {L \in F : objective(L) = best}

\* variant: the re-validation asks for three RB
validate_lineup_three_rb(L) ==
    /\ Cardinality(L) = LINEUP_SIZE
    /\ position_count(L, "QB") >= 1
    /\ position_count(L, "RB") >= 3
    /\ position_count(L, "WR") >= 3
    /\ position_count(L, "TE") >= 1
    /\ position_count(L, "DST") >= 1
    /\ total_salary(L) <= constraints.salary_cap

\* _validate_lineup
validate_lineup(L) ==
    /\ Cardinality(L) = LINEUP_SIZE
    /\ position_count(L, "QB") >= 1
    /\ position_count(L, "RB") >= 2
    /\ position_count(L, "WR") >= 3
    /\ position_count(L, "TE") >= 1
    /\ position_count(L, "DST") >= 1
    /\ total_salary(L) <= constraints.salary_cap

\* the lineup dict built from the selected players
make_lineup(L) ==
    [lineup_id |-> Len(initial_lineups) + 1,
     players |-> L,
     total_salary |-> total_salary(L),
     is_valid |-> validate_lineup(L),
     cluster_id |-> <<>>,
     cluster_distance |-> <<>>]

\* variant: one attempt more than twenty per lineup of the target
initial_pool_size_one_more == lineup_count * POOL_FACTOR + 1

\* min(5000, self.lineup_count * 20)
initial_pool_size ==
    IF lineup_count * POOL_FACTOR < MAX_INITIAL_POOL
    THEN lineup_count * POOL_FACTOR ELSE MAX_INITIAL_POOL

\* ------------------------------------------------------------------------
\* Inputs of optimize_lineups
\* ------------------------------------------------------------------------

\* one QB, three RB, four WR, two TE, one DST
Tiny11 == (1..9) \cup {11, 13}

\* no TE at all: one QB, three RB, four WR, one DST
NoTE == {19, 2, 3, 20, 4, 5, 6, 22, 27}

\* two full squads and a third TE
TwoSquads == (1..18) \cup {25}

\* three full squads
ThreeSquads == 1..27

UnlimitedExposure ==
    [exposure_limits |-> [max_exposure |-> Frac(1, 1), min_exposure |-> Frac(0, 1)]]

Rule(t, id, ms, tm, mp) ==
    [type |-> t, player_id |-> id, min_salary |-> ms, team |-> tm, max_players |-> mp]

WithCustomRules ==
    [exposure_limits |-> [max_exposure |-> Frac(1, 1), min_exposure |-> Frac(0, 1)],
     custom_rules |-> {Rule("force_player", 8, 0, "", 0),
                       Rule("exclude_player", 11, 0, "", 0),
                       Rule("min_salary", 0, 49500, "", 0),
                       Rule("max_team_exposure", 0, 0, "KC", 6)}]

LowCap ==
    [salary_cap |-> 48000,
     exposure_limits |-> [max_exposure |-> Frac(1, 1), min_exposure |-> Frac(0, 1)]]

NoCustom == [x \in {} |-> 0]

\* position minimums that sum to 10
TenMinimums ==
    [positions |-> [QB |-> Range(1, 1), RB |-> Range(3, 3), WR |-> Range(4, 4),
                    TE |-> Range(1, 2), DST |-> Range(1, 1)]]

\* the projected_points strategy named by the configuration
ByProjectedPoints ==
    [objective |-> "projected_points",
     exposure_limits |-> [max_exposure |-> Frac(1, 1), min_exposure |-> Frac(0, 1)]]

\* a player may be in at most a quarter of the lineups
QuarterExposure ==
    [exposure_limits |-> [max_exposure |-> Frac(1, 4), min_exposure |-> Frac(0, 1)]]

\* the default ranges without the FLEX slack: two RB, three WR, two TE
FixedShape ==
    [positions |-> [QB |-> Range(1, 1), RB |-> Range(2, 2), WR |-> Range(3, 3),
                    TE |-> Range(2, 2), DST |-> Range(1, 1)]]

Inputs ==
    {[projections |-> Tiny11, custom |-> UnlimitedExposure],
     [projections |-> TwoSquads, custom |-> QuarterExposure],
     [projections |-> {}, custom |-> NoCustom],
     [projections |-> Tiny11 \cup {28, 29}, custom |-> WithCustomRules],
     [projections |-> Tiny11, custom |-> LowCap],
     [projections |-> Tiny11, custom |-> NoCustom],
     [projections |-> NoTE, custom |-> NoCustom],
     [projections |-> TwoSquads, custom |-> NoCustom],
     [projections |-> {28, 29}, custom |-> NoCustom],
     [projections |-> Tiny11, custom |-> TenMinimums],
     [projections |-> NoTE, custom |-> TenMinimums],
     [projections |-> Tiny11, custom |-> ByProjectedPoints]}

\* round(total / len(lineups), 2), in hundredths
rounded_average(total, n) == (2 * 100 * total + n) \div (2 * n)

NoStats == [k \in {} |-> 0]

\* _calculate_portfolio_stats: {} for no lineups, otherwise the averages, the
\* number of players used, the largest and smallest player exposure and the
\* exposure_distribution.  player_exposures is filled lineup by lineup and,
\* within a lineup, in the order of the rows; the stable sort by descending
\* count keeps that order among equal counts and the first EXPOSURE_TOP
\* entries are reported.
calculate_portfolio_stats(lineups) ==
    IF lineups = <<>> THEN NoStats
    ELSE LET used == UNION {lineups[n].players : n \in 1..Len(lineups)}
             player_exposures ==
                 [i \in used |->
                     Cardinality({n \in 1..Len(lineups) : i \in lineups[n].players})]
             total(f) == SumOver([n \in 1..Len(lineups) |-> SumOver(f, lineups[n].players)],
                                 1..Len(lineups))
             first_seen ==
                 [i \in used |->
                     CHOOSE n \in 1..Len(lineups) :
                         /\ i \in lineups[n].players
                         /\ \A m \in 1..(n - 1) : i \notin lineups[m].players]
             entries == {<<player_exposures[i], first_seen[i], i>> : i \in used}
             sorted_before(a, b) ==
                 \/ a[1] > b[1]
                 \/ /\ a[1] = b[1]
                    /\ \/ a[2] < b[2]
                       \/ a[2] = b[2] /\ a[3] < b[3]
             reported ==
                 IF Cardinality(used) <= EXPOSURE_TOP THEN used
                 ELSE {b[3] : b \in {e \in entries :
                                        Cardinality({a \in entries : sorted_before(a, e)})
                                            < EXPOSURE_TOP}}
             total_ceiling == total([i \in PlayerIds |-> ceiling_points(i)])
             total_ownership == total([i \in PlayerIds |-> projected_ownership(i)])
         IN  [avg_projected_points |->
                  rounded_average(total([i \in PlayerIds |-> projected_points(i)]),
                                  Len(lineups)),
              avg_ceiling_points |->
                  rounded_average(total([i \in PlayerIds |-> ceiling_points(i)]),
                                  Len(lineups)),
              avg_ownership |->
                  rounded_average(total([i \in PlayerIds |-> projected_ownership(i)]),
                                  Len(lineups)),
              avg_leverage_score |->
                  rounded_average(total_ceiling, Max({total_ownership, Len(lineups)})),
              unique_players |-> Cardinality(used),
              max_player_exposure |-> Max({player_exposures[i] : i \in used}),
              min_player_exposure |->
                  -Max({-player_exposures[i] : i \in used}),
              exposure_distribution |-> [i \in reported |-> player_exposures[i]]]

\* ------------------------------------------------------------------------
\* Actions
\* ------------------------------------------------------------------------

Init ==
    /\ pc = "idle"
    /\ lineup_count = 0
    /\ player_data = {}
    /\ constraints = default_constraints
    /\ lineup_num = 0
    /\ initial_lineups = <<>>
    /\ used_combinations = {}
    /\ status = "Unsolved"
    /\ timeouts = 0
    /\ budget_exhausted = FALSE
    /\ return_path = "none"
    /\ portfolio = <<>>
    /\ projections = {}
    /\ portfolio_stats = NoStats
    /\ clustering = <<>>
    /\ previous = <<>>
    /\ qb_stack_trial = <<>>

\* variant: empty player data does not raise and the run goes on to the loop
StartRun_tolerates_empty ==
    /\ pc = "idle"
    /\ \E input \in Inputs, n \in 1..MaxLineupCount :
        /\ lineup_count' = n
        /\ projections' = input.projections
        /\ player_data' = prepare_player_data(input.projections)
        /\ pc' = "generate"
        /\ constraints' = setup_constraints(input.custom)
    /\ UNCHANGED <<lineup_num, initial_lineups, used_combinations, status, timeouts,
                   budget_exhausted, return_path, portfolio, portfolio_stats,
                   clustering, previous, qb_stack_trial>>

\* optimize_lineups up to the first attempt: prepare the player data, raise
\* ValueError when it is empty, set up the constraints
StartRun ==
    /\ pc = "idle"
    /\ \E input \in Inputs, n \in 1..MaxLineupCount :
        LET prepared == prepare_player_data(input.projections) IN
        /\ lineup_count' = n
        /\ projections' = input.projections
        /\ player_data' = prepared
        /\ IF prepared = {}
           THEN pc' = "raised" /\ constraints' = constraints
           ELSE pc' = "generate" /\ constraints' = setup_constraints(input.custom)
    /\ UNCHANGED <<lineup_num, initial_lineups, used_combinations, status, timeouts,
                   budget_exhausted, return_path, portfolio, portfolio_stats,
                   clustering, previous, qb_stack_trial>>

\* variant: an accepted lineup is appended to the pool but its combination is
\* not written to used_combinations
AttemptSolved_unrecorded ==
    /\ pc = "generate"
    /\ lineup_num < initial_pool_size
    /\ LET solutions == optimal_selections IN
        IF solutions = {}
        THEN /\ status' = "Infeasible"
             /\ UNCHANGED <<initial_lineups, used_combinations>>
        ELSE \E L \in solutions :
                /\ status' = "Optimal"
                /\ IF Cardinality(L) # LINEUP_SIZE
                   THEN UNCHANGED <<initial_lineups, used_combinations>>
                   ELSE /\ initial_lineups' = Append(initial_lineups, make_lineup(L))
                        /\ UNCHANGED used_combinations
    /\ lineup_num' = lineup_num + 1
    /\ UNCHANGED <<pc, lineup_count, player_data, constraints, timeouts,
                   budget_exhausted, return_path, portfolio,
                   projections, portfolio_stats, clustering, previous, qb_stack_trial>>

\* variant: an Infeasible attempt empties used_combinations
AttemptSolved_infeasible_clears ==
    /\ pc = "generate"
    /\ lineup_num < initial_pool_size
    /\ LET solutions == optimal_selections IN
        IF solutions = {}
        THEN /\ status' = "Infeasible"
             /\ used_combinations' = {}
             /\ UNCHANGED initial_lineups
        ELSE \E L \in solutions :
                /\ status' = "Optimal"
                /\ IF Cardinality(L) # LINEUP_SIZE
                   THEN UNCHANGED <<initial_lineups, used_combinations>>
                   ELSE /\ initial_lineups' = Append(initial_lineups, make_lineup(L))
                        /\ used_combinations' = used_combinations \cup {L}
    /\ lineup_num' = lineup_num + 1
    /\ UNCHANGED <<pc, lineup_count, player_data, constraints, timeouts,
                   budget_exhausted, return_path, portfolio,
                   projections, portfolio_stats, clustering, previous, qb_stack_trial>>

\* one pass of the loop of _generate_lineup_portfolio whose solve finishes
\* within the time limit: status Optimal with a selection of maximal objective,
\* or Infeasible and no lineup
AttemptSolved ==
    /\ pc = "generate"
    /\ lineup_num < initial_pool_size
    /\ LET solutions == optimal_selections IN
        IF solutions = {}
        THEN /\ status' = "Infeasible"
             /\ UNCHANGED <<initial_lineups, used_combinations>>
        ELSE \E L \in solutions :
                /\ status' = "Optimal"
                /\ IF Cardinality(L) # LINEUP_SIZE
                   THEN UNCHANGED <<initial_lineups, used_combinations>>
                   ELSE /\ initial_lineups' = Append(initial_lineups, make_lineup(L))
                        /\ used_combinations' = used_combinations \cup {L}
    /\ lineup_num' = lineup_num + 1
    /\ UNCHANGED <<pc, lineup_count, player_data, constraints, timeouts,
                   budget_exhausted, return_path, portfolio,
                   projections, portfolio_stats, clustering, previous, qb_stack_trial>>

\* variant: a solve that hits the time limit aborts the run
AttemptTimedOut_aborts ==
    /\ pc = "generate"
    /\ lineup_num < initial_pool_size
    /\ timeouts < MaxTimeouts
    /\ timeouts' = timeouts + 1
    /\ status' = "TimedOut"
    /\ lineup_num' = lineup_num + 1
    /\ pc' = "raised"
    /\ UNCHANGED <<lineup_count, player_data, constraints, initial_lineups,
                   used_combinations, budget_exhausted, return_path, portfolio,
                   projections, portfolio_stats, clustering, previous, qb_stack_trial>>

\* one pass whose solve hits timeLimit=60 without a solution: no lineup
AttemptTimedOut ==
    /\ pc = "generate"
    /\ lineup_num < initial_pool_size
    /\ timeouts < MaxTimeouts
    /\ timeouts' = timeouts + 1
    /\ status' = "TimedOut"
    /\ lineup_num' = lineup_num + 1
    /\ UNCHANGED <<pc, lineup_count, player_data, constraints, initial_lineups,
                   used_combinations, budget_exhausted, return_path, portfolio,
                   projections, portfolio_stats, clustering, previous, qb_stack_trial>>

\* the wall clock passes optimization_timeout_minutes while the pool is generated
ClockExpires ==
    /\ pc = "generate"
    /\ ~budget_exhausted
    /\ budget_exhausted' = TRUE
    /\ UNCHANGED <<pc, lineup_count, player_data, constraints, lineup_num,
                   initial_lineups, used_combinations, status, timeouts, return_path,
                   portfolio,
                   projections, portfolio_stats, clustering, previous, qb_stack_trial>>

\* variant: a pool not larger than the target is returned with each lineup
\* tagged as a cluster of its own
ReturnPool_tagged ==
    /\ pc = "generate"
    /\ lineup_num = initial_pool_size
    /\ Len(initial_lineups) <= lineup_count
    /\ portfolio' = [n \in 1..Len(initial_lineups) |->
                        [initial_lineups[n] EXCEPT !.cluster_id = <<n - 1>>,
                                                   !.cluster_distance = <<0>>]]
    /\ return_path' = "pool"
    /\ clustering' = <<>>
    /\ portfolio_stats' = calculate_portfolio_stats(portfolio')
    /\ pc' = "done"
    /\ UNCHANGED <<lineup_count, player_data, constraints, lineup_num, initial_lineups,
                   used_combinations, status, timeouts, budget_exhausted, projections,
                   previous, qb_stack_trial>>

\* len(initial_lineups) <= self.lineup_count: the pool is returned as it is
ReturnPool ==
    /\ pc = "generate"
    /\ lineup_num = initial_pool_size
    /\ Len(initial_lineups) <= lineup_count
    /\ portfolio' = initial_lineups
    /\ return_path' = "pool"
    /\ clustering' = <<>>
    /\ portfolio_stats' = calculate_portfolio_stats(portfolio')
    /\ pc' = "done"
    /\ UNCHANGED <<lineup_count, player_data, constraints, lineup_num, initial_lineups,
                   used_combinations, status, timeouts, budget_exhausted, projections,
                   previous, qb_stack_trial>>

\* variant: the member farthest from the centroid represents its cluster
RECURSIVE select_representatives_farthest(_, _, _)
select_representatives_farthest(cluster_labels, distance, cluster_id) ==
    IF cluster_id >= lineup_count THEN <<>>
    ELSE LET cluster_indices ==
                 {idx \in 1..Len(initial_lineups) : cluster_labels[idx] = cluster_id}
             rest == select_representatives_farthest(cluster_labels, distance,
                                                     cluster_id + 1)
         IN  IF cluster_indices = {} THEN rest
             ELSE LET best_lineup_idx ==
                          CHOOSE idx \in cluster_indices :
                              \A other \in cluster_indices :
                                  \/ distance[idx] > distance[other]
                                  \/ distance[idx] = distance[other] /\ idx <= other
                  IN  <<[initial_lineups[best_lineup_idx] EXCEPT
                            !.cluster_id = <<cluster_id>>,
                            !.cluster_distance = <<distance[best_lineup_idx]>>]>>
                      \o rest

\* _apply_kmeans_diversification, the loop over range(self.lineup_count) from
\* cluster_id on: an empty cluster is skipped, otherwise the first member at
\* minimal distance to the centroid is copied and tagged with its cluster
RECURSIVE select_representatives(_, _, _)
select_representatives(cluster_labels, distance, cluster_id) ==
    IF cluster_id >= lineup_count THEN <<>>
    ELSE LET cluster_indices ==
                 {idx \in 1..Len(initial_lineups) : cluster_labels[idx] = cluster_id}
             rest == select_representatives(cluster_labels, distance, cluster_id + 1)
         IN  IF cluster_indices = {} THEN rest
             ELSE LET best_lineup_idx ==
                          CHOOSE idx \in cluster_indices :
                              \A other \in cluster_indices :
                                  \/ distance[idx] < distance[other]
                                  \/ distance[idx] = distance[other] /\ idx <= other
                  IN  <<[initial_lineups[best_lineup_idx] EXCEPT
                            !.cluster_id = <<cluster_id>>,
                            !.cluster_distance = <<distance[best_lineup_idx]>>]>>
                      \o rest

\* _apply_kmeans_diversification returning normally: KMeans assigns every pool
\* lineup one of lineup_count labels
KMeansSelect ==
    /\ pc = "generate"
    /\ lineup_num = initial_pool_size
    /\ Len(initial_lineups) > lineup_count
    /\ \E cluster_labels \in [1..Len(initial_lineups) -> 0..(lineup_count - 1)],
          distance \in [1..Len(initial_lineups) -> 0..MaxDistance] :
        /\ portfolio' = select_representatives(cluster_labels, distance, 0)
        /\ clustering' = <<[cluster_labels |-> cluster_labels, distance |-> distance]>>
    /\ return_path' = "kmeans"
    /\ portfolio_stats' = calculate_portfolio_stats(portfolio')
    /\ pc' = "done"
    /\ UNCHANGED <<lineup_count, player_data, constraints, lineup_num, initial_lineups,
                   used_combinations, status, timeouts, budget_exhausted, projections,
                   previous, qb_stack_trial>>

\* variant: the fallback returns the pool without cutting it
KMeansFallback_uncut ==
    /\ pc = "generate"
    /\ lineup_num = initial_pool_size
    /\ Len(initial_lineups) > lineup_count
    /\ portfolio' = initial_lineups
    /\ return_path' = "fallback"
    /\ clustering' = <<>>
    /\ portfolio_stats' = calculate_portfolio_stats(portfolio')
    /\ pc' = "done"
    /\ UNCHANGED <<lineup_count, player_data, constraints, lineup_num, initial_lineups,
                   used_combinations, status, timeouts, budget_exhausted, projections,
                   previous, qb_stack_trial>>

\* _apply_kmeans_diversification catching an exception: lineups[:self.lineup_count]
KMeansFallback ==
    /\ pc = "generate"
    /\ lineup_num = initial_pool_size
    /\ Len(initial_lineups) > lineup_count
    /\ portfolio' = SubSeq(initial_lineups, 1, lineup_count)
    /\ return_path' = "fallback"
    /\ clustering' = <<>>
    /\ portfolio_stats' = calculate_portfolio_stats(portfolio')
    /\ pc' = "done"
    /\ UNCHANGED <<lineup_count, player_data, constraints, lineup_num, initial_lineups,
                   used_combinations, status, timeouts, budget_exhausted, projections,
                   previous, qb_stack_trial>>

\* ------------------------------------------------------------------------
\* A run with lineup_count = 3 on the three squads, two RB / three WR / two TE.
\* Its first six solves are replayed: RecordedSolves[n] is the selection of
\* maximal objective of the problem built from the first n - 1 of them.
\* ------------------------------------------------------------------------

RecordedSolves ==
    <<19..27,
      10..18,
      1..9,
      {16, 18, 19, 20, 21, 22, 23, 24, 25},
      {10, 11, 12, 13, 14, 15, 17, 26, 27},
      {13, 16, 19, 20, 21, 22, 23, 25, 27}>>

InitExposure ==
    /\ pc = "generate"
    /\ lineup_count = 3
    /\ player_data = prepare_player_data(ThreeSquads)
    /\ constraints = setup_constraints(FixedShape)
    /\ lineup_num = 0
    /\ initial_lineups = <<>>
    /\ used_combinations = {}
    /\ status = "Unsolved"
    /\ timeouts = 0
    /\ budget_exhausted = FALSE
    /\ return_path = "none"
    /\ portfolio = <<>>
    /\ projections = ThreeSquads
    /\ portfolio_stats = NoStats
    /\ clustering = <<>>
    /\ previous = <<>>
    /\ qb_stack_trial = <<>>

\* one pass of the loop whose solve ends Optimal with the recorded selection,
\* which satisfies every constraint of the problem built in this state
AttemptRecorded ==
    /\ pc = "generate"
    /\ lineup_num < initial_pool_size
    /\ Len(initial_lineups) < Len(RecordedSolves)
    /\ LET L == RecordedSolves[Len(initial_lineups) + 1] IN
        /\ problem_constraints(L, fixed_to_zero, fixed_to_one)
        /\ status' = "Optimal"
        /\ IF Cardinality(L) # LINEUP_SIZE
           THEN UNCHANGED <<initial_lineups, used_combinations>>
           ELSE /\ initial_lineups' = Append(initial_lineups, make_lineup(L))
                /\ used_combinations' = used_combinations \cup {L}
    /\ lineup_num' = lineup_num + 1
    /\ UNCHANGED <<pc, lineup_count, player_data, constraints, timeouts,
                   budget_exhausted, return_path, portfolio,
                   projections, portfolio_stats, clustering, previous, qb_stack_trial>>

\* one pass whose solve hits timeLimit=60 without a solution, any number of times
AttemptTimeLimit ==
    /\ pc = "generate"
    /\ lineup_num < initial_pool_size
    /\ timeouts' = timeouts + 1
    /\ status' = "TimedOut"
    /\ lineup_num' = lineup_num + 1
    /\ UNCHANGED <<pc, lineup_count, player_data, constraints, initial_lineups,
                   used_combinations, budget_exhausted, return_path, portfolio,
                   projections, portfolio_stats, clustering, previous, qb_stack_trial>>

\* ------------------------------------------------------------------------
\* optimize_lineups called twice with the same projections and constraints,
\* lineup_count = 1: the first run's pool, clustering and portfolio are kept
\* in previous while the second run is made.
\* ------------------------------------------------------------------------

InitRepeat ==
    /\ pc = "generate"
    /\ lineup_count = 1
    /\ projections = Tiny11
    /\ player_data = prepare_player_data(Tiny11)
    /\ constraints = setup_constraints(UnlimitedExposure)
    /\ lineup_num = 0
    /\ initial_lineups = <<>>
    /\ used_combinations = {}
    /\ status = "Unsolved"
    /\ timeouts = 0
    /\ budget_exhausted = FALSE
    /\ return_path = "none"
    /\ portfolio = <<>>
    /\ portfolio_stats = NoStats
    /\ clustering = <<>>
    /\ previous = <<>>
    /\ qb_stack_trial = <<>>

\* _apply_kmeans_diversification with random_state=42: on the pool of the
\* earlier run KMeans gives the labels and distances it gave then
KMeansSeeded ==
    /\ pc = "generate"
    /\ lineup_num = initial_pool_size
    /\ Len(initial_lineups) > lineup_count
    /\ \E cluster_labels \in [1..Len(initial_lineups) -> 0..(lineup_count - 1)],
          distance \in [1..Len(initial_lineups) -> 0..MaxDistance] :
        /\ (previous # <<>> /\ previous[1].pool = initial_lineups)
               => previous[1].clustering
                      = <<[cluster_labels |-> cluster_labels, distance |-> distance]>>
        /\ portfolio' = select_representatives(cluster_labels, distance, 0)
        /\ clustering' = <<[cluster_labels |-> cluster_labels, distance |-> distance]>>
    /\ return_path' = "kmeans"
    /\ portfolio_stats' = calculate_portfolio_stats(portfolio')
    /\ pc' = "done"
    /\ UNCHANGED <<lineup_count, player_data, constraints, lineup_num, initial_lineups,
                   used_combinations, status, timeouts, budget_exhausted, projections,
                   previous, qb_stack_trial>>

\* the first run has returned and optimize_lineups is called again with the
\* same arguments: its locals start afresh
RunAgain ==
    /\ pc = "done"
    /\ previous = <<>>
    /\ previous' = <<[pool |-> initial_lineups, clustering |-> clustering,
                      portfolio |-> portfolio]>>
    /\ pc' = "generate"
    /\ lineup_num' = 0
    /\ initial_lineups' = <<>>
    /\ used_combinations' = {}
    /\ status' = "Unsolved"
    /\ timeouts' = 0
    /\ budget_exhausted' = FALSE
    /\ return_path' = "none"
    /\ portfolio' = <<>>
    /\ portfolio_stats' = NoStats
    /\ clustering' = <<>>
    /\ UNCHANGED <<lineup_count, player_data, constraints, projections,
                   qb_stack_trial>>

NextRepeat ==
    \/ AttemptSolved
    \/ AttemptTimeLimit
    \/ ReturnPool
    \/ KMeansSeeded
    \/ RunAgain

SpecRepeat == InitRepeat /\ [][NextRepeat]_vars

NextExposure ==
    \/ AttemptRecorded
    \/ AttemptTimeLimit
    \/ ReturnPool
    \/ KMeansSelect
    \/ KMeansFallback

SpecExposure == InitExposure /\ [][NextExposure]_vars

Next ==
    \/ StartRun
    \/ AttemptSolved
    \/ AttemptTimedOut
    \/ ClockExpires
    \/ ReturnPool
    \/ KMeansSelect
    \/ KMeansFallback

Spec == Init /\ [][Next]_vars

\* one pass of the loop of _generate_lineup_portfolio comes to its end, or the
\* function returns
LoopAdvances == lineup_num' # lineup_num \/ pc' # pc

\* a run in _generate_lineup_portfolio is not suspended for ever: every solve
\* has a time limit, so the loop keeps going from one pass to the next
FairSpec == Spec /\ ([]<>(pc # "generate") \/ []<><<LoopAdvances>>_vars)

\* ------------------------------------------------------------------------
\* Properties
\* ------------------------------------------------------------------------

Pool == {initial_lineups[n] : n \in 1..Len(initial_lineups)}

Returned == {portfolio[n] : n \in 1..Len(portfolio)}

appearances(i) == Cardinality({n \in 1..Len(portfolio) : i \in portfolio[n].players})

\* C1: every lineup of the candidate pool has exactly 9 players, all of them
\* rows of the player data (ids are distinct: a lineup is a set of ids), and its
\* total salary, which is the sum of its players' salaries, is at most salary_cap.
C1_PoolLineupsNineWithinCap ==
    \A l \in Pool :
        /\ Cardinality(l.players) = LINEUP_SIZE
        /\ l.players \subseteq player_data
        /\ l.total_salary = total_salary(l.players)
        /\ l.total_salary <= constraints.salary_cap

\* a pool of two or more lineups one of which spends the whole salary cap
C1_Witness ==
    /\ Len(initial_lineups) >= 2
    /\ \E l \in Pool : l.total_salary = constraints.salary_cap

\* C2: in every pool lineup the number of players of each roster position is
\* within the [min, max] configured for that position, and the counts sum to 9.
C2_PositionCountsWithinRanges ==
    \A l \in Pool :
        /\ \A pos \in Positions :
              /\ position_count(l.players, pos) >= constraints.positions[pos].min
              /\ position_count(l.players, pos) <= constraints.positions[pos].max
        /\ Cardinality(l.players) = LINEUP_SIZE

\* C3: no two lineups of the candidate pool consist of the same 9 players: any
\* two of them share at most 8.
C3_PoolLineupsPairwiseDistinct ==
    \A a, b \in 1..Len(initial_lineups) :
        a # b =>
            Cardinality(initial_lineups[a].players \cap initial_lineups[b].players)
                <= LINEUP_SIZE - 1

\* two pool lineups that differ in two players only
C3_Witness ==
    \E a, b \in 1..Len(initial_lineups) :
        /\ a # b
        /\ Cardinality(initial_lineups[a].players \cap initial_lineups[b].players)
               = MAX_OVERLAP

\* C4: in the portfolio a run returns no player appears in more than
\* max_exposure * portfolio size lineups, one more allowed for rounding.
C4_PortfolioExposureWithinLimit ==
    pc = "done" =>
        \A i \in player_data :
            appearances(i) * constraints.exposure_limits.max_exposure.den
                <= constraints.exposure_limits.max_exposure.num * Len(portfolio)
                   + constraints.exposure_limits.max_exposure.den

\* a run on valid players with the default salary cap, position ranges and
\* exposure limits whose player data has every roster position
DefaultShapeRun ==
    /\ constraints = default_constraints
    /\ \A pos \in Positions : \E i \in player_data : positionOf[i] = pos

ReturnedLineupsSound ==
    /\ \A a, b \in 1..Len(portfolio) :
           a # b => portfolio[a].players # portfolio[b].players
    /\ \A l \in Returned :
           /\ l.is_valid
           /\ Cardinality(l.players) = LINEUP_SIZE
           /\ l.total_salary <= constraints.salary_cap

\* C5 as stated: such a run returns exactly lineup_count lineups, pairwise
\* distinct, valid and within the salary cap.
C5_ReachesTargetSize ==
    (pc = "done" /\ DefaultShapeRun) =>
        /\ Len(portfolio) = lineup_count
        /\ ReturnedLineupsSound

\* C5 amended: such a run returns at most lineup_count lineups, pairwise
\* distinct, valid and within the salary cap; it returns lineup_count of them
\* only if the pool holds at least lineup_count, a smaller pool is returned
\* whole, and a pool of at least lineup_count returned as it is or cut to its
\* first lineup_count has exactly lineup_count.
C5_AtMostTargetSize ==
    (pc = "done" /\ DefaultShapeRun) =>
        /\ Len(portfolio) <= lineup_count
        /\ Len(portfolio) = lineup_count => Len(initial_lineups) >= lineup_count
        /\ Len(initial_lineups) < lineup_count => portfolio = initial_lineups
        /\ (Len(initial_lineups) >= lineup_count /\ return_path # "kmeans")
               => Len(portfolio) = lineup_count
        /\ ReturnedLineupsSound

\* a run of that shape with target 2 that returns exactly 2 lineups
C5_Witness ==
    /\ pc = "done"
    /\ DefaultShapeRun
    /\ lineup_count = 2
    /\ Len(portfolio) = 2

\* C6: whichever way the run returns (pool as it is, k-means selection, k-means
\* fallback), the portfolio holds at most lineup_count lineups and no two of
\* them have the same 9 players.
C6_PortfolioBoundedAndDistinct ==
    pc = "done" =>
        /\ return_path \in {"pool", "kmeans", "fallback"}
        /\ Len(portfolio) <= lineup_count
        /\ \A a, b \in 1..Len(portfolio) :
               a # b => portfolio[a].players # portfolio[b].players

\* a k-means selection that fills both clusters out of a larger pool
C6_Witness ==
    /\ pc = "done"
    /\ return_path = "kmeans"
    /\ lineup_count = 2
    /\ Len(portfolio) = 2
    /\ Len(initial_lineups) > 2

\* C7: every pool lineup has at most team_stack_max players of one team, at
\* most game_stack_max players of one game and, with its QB, at least
\* qb_stack_min WR/TE of the QB's team.
C7_PoolLineupsRespectStacking ==
    \A l \in Pool :
        /\ \A i \in l.players :
              team_count(l.players, team(i)) <= constraints.stacking_rules.team_stack_max
        /\ \A i \in l.players :
              game_count(l.players, game_id(i)) <= constraints.stacking_rules.game_stack_max
        /\ \A q \in l.players :
              positionOf[q] = "QB" =>
                  Cardinality({i \in l.players :
                                  team(i) = team(q) /\ positionOf[i] \in {"WR", "TE"}})
                      >= constraints.stacking_rules.qb_stack_min

\* C8: every pool lineup honours the custom rules of the configuration: a
\* force_player id is in it, an exclude_player id is not, its total salary is
\* at least a min_salary floor, a max_team_exposure team has at most
\* max_players in it.
C8_PoolLineupsHonourCustomRules ==
    \A l \in Pool : \A rule \in constraints.custom_rules :
        /\ (rule.type = "force_player" /\ rule.player_id \in player_data)
               => rule.player_id \in l.players
        /\ rule.type = "exclude_player" => rule.player_id \notin l.players
        /\ rule.type = "min_salary" => l.total_salary >= rule.min_salary
        /\ rule.type = "max_team_exposure"
               => team_count(l.players, rule.team) <= rule.max_players

\* C9: a selection that fails _validate_lineup is never appended, so every
\* lineup of the pool has is_valid = true.
C9_PoolLineupsAreValid == \A l \in Pool : l.is_valid

\* C10: once the wall-clock budget is exhausted no further solve attempt is
\* started.
C10_NoAttemptAfterBudget == [][budget_exhausted => lineup_num' = lineup_num]_vars

\* C11: a solve attempt that ends Infeasible or TimedOut adds nothing to the
\* pool and the loop goes on; a run raises only for empty player data, before
\* any attempt; and a run whose pool ends empty returns an empty portfolio
\* with empty stats.
C11_FailedAttemptsAreSkipped ==
    /\ [][(lineup_num' # lineup_num /\ status' \in {"Infeasible", "TimedOut"})
             => /\ pc' = "generate"
                /\ lineup_num' = lineup_num + 1
                /\ initial_lineups' = initial_lineups
                /\ used_combinations' = used_combinations]_vars
    /\ [](pc = "raised" => (player_data = {} /\ lineup_num = 0))
    /\ []((pc = "done" /\ initial_lineups = <<>>)
             => (portfolio = <<>> /\ portfolio_stats = NoStats))

\* a finished run on valid players all of whose attempts failed, one of them
\* on the time limit and the others as infeasible
C11_Witness ==
    /\ pc = "done"
    /\ player_data # {}
    /\ lineup_num = initial_pool_size
    /\ initial_lineups = <<>>
    /\ timeouts = 1
    /\ portfolio = <<>>

\* the sum of the configured position minimums
position_minimums ==
    SumOver([pos \in DOMAIN constraints.positions |-> constraints.positions[pos].min],
            DOMAIN constraints.positions)

\* C12: under a configuration whose position minimums sum to more than 9 no
\* solve attempt ends Optimal, nothing is appended to the pool and the
\* returned portfolio is empty.
C12_TooManyMinimumsYieldNothing ==
    (pc \in {"generate", "done"} /\ position_minimums > LINEUP_SIZE) =>
        /\ status # "Optimal"
        /\ initial_lineups = <<>>
        /\ portfolio = <<>>

\* C13: when the pool holds at most lineup_count lineups, exactly lineup_count
\* included, the run returns the pool itself, the same lineups in the same
\* order and unaltered, and the stats it reports are those of the pool.
C13_SmallPoolReturnedAsIs ==
    (pc = "done" /\ Len(initial_lineups) <= lineup_count) =>
        /\ return_path = "pool"
        /\ portfolio = initial_lineups
        /\ portfolio_stats = calculate_portfolio_stats(initial_lineups)

\* a finished run whose pool has exactly lineup_count = 2 lineups
C13_Witness ==
    /\ pc = "done"
    /\ lineup_count = 2
    /\ Len(initial_lineups) = 2
    /\ Len(portfolio) = 2

\* C14: a row of the input whose salary or projected_points is not positive is
\* not in the player data the solves are built from and is in no lineup of
\* the pool or of the returned portfolio; every lineup is made of rows of
\* the player data.
C14_MalformedRowsNeverSelected ==
    /\ \A i \in projections :
          (salary(i) <= 0 \/ projected_points(i) <= 0) =>
              /\ i \notin player_data
              /\ \A l \in Pool \cup Returned : i \notin l.players
    /\ \A l \in Pool \cup Returned : l.players \subseteq player_data

\* a pool built from an input that holds a row without salary and a row
\* without projected points
C14_Witness ==
    /\ \E i \in projections : salary(i) <= 0
    /\ \E i \in projections : projected_points(i) <= 0
    /\ Len(initial_lineups) >= 1

\* the strategy named by the configuration, the leveraged ceiling when none is
named_objective ==
    IF constraints.objective = "" THEN "leveraged_ceiling" ELSE constraints.objective

named_score(L) ==
    SumOver([i \in PlayerIds |-> get_objective_function(named_objective, i)], L)

\* C15: the selection a solve returns has the largest score, under the strategy
\* the configuration names, among the selections that satisfy the constraints
\* of that solve.
C15_MaximisesNamedStrategy ==
    [][Len(initial_lineups') > Len(initial_lineups) =>
          \A F \in feasible_selections :
              named_score(F) <= named_score(initial_lineups'[Len(initial_lineups')].players)]_vars

\* C16: every lineup of the portfolio a run returns carries a cluster_id and a
\* cluster_distance, whichever way the run returns.
C16_ReturnedLineupsAreTagged ==
    pc = "done" =>
        \A l \in Returned : l.cluster_id # <<>> /\ l.cluster_distance # <<>>

\* C18: a run never makes more than min(5000, 20 * lineup_count) solve
\* attempts, one at a time, the pool never holds more lineups than attempts
\* were made, and pool generation, once started, comes to its end.
C18_PoolGenerationTerminates ==
    /\ [](/\ lineup_num <= 20 * lineup_count
          /\ lineup_num <= 5000
          /\ Len(initial_lineups) <= lineup_num)
    /\ [][lineup_num' \in {lineup_num, lineup_num + 1}]_vars
    /\ [](pc = "generate" => <>(pc = "done"))

\* a finished run that made all 40 attempts of target 2, some of which failed
C18_Witness ==
    /\ pc = "done"
    /\ lineup_count = 2
    /\ lineup_num = 40
    /\ Len(initial_lineups) \in 1..39

\* C19: the uniqueness constraints of a solve rule out only a selection that
\* repeats all 9 players of an accepted lineup: a selection that swaps one
\* player of an accepted lineup for another, and so shares at most 8 players
\* with every accepted lineup, satisfies them.
C19_OnlyExactRepeatsExcluded ==
    \A c \in used_combinations : \A a \in c : \A b \in player_data \ c :
        LET L == (c \ {a}) \cup {b} IN
        (\A u \in used_combinations : Cardinality(u \cap L) <= LINEUP_SIZE - 1)
            => create_uniqueness_constraints(L)

\* the players whose usage, were they selected again, would exceed
\* max_exposure of the n + 1 lineups, n the number of accepted lineups
over_exposed ==
    {i \in player_data :
        (player_usage(i) + 1) * constraints.exposure_limits.max_exposure.den
            > constraints.exposure_limits.max_exposure.num * (Len(initial_lineups) + 1)}

\* C20 as stated: at every attempt the players fixed to 0 are exactly the
\* over-exposed ones.
C20_ForcedOutAtEveryAttempt ==
    pc = "generate" => fixed_to_zero = over_exposed

\* C20 amended: at every attempt after the first accepted lineup the players
\* fixed to 0 are exactly the over-exposed ones; while no lineup is accepted
\* no player is fixed to 0, whatever max_exposure is.
C20_ForcedOutOnceALineupExists ==
    pc = "generate" =>
        /\ Len(initial_lineups) >= 1 => fixed_to_zero = over_exposed
        /\ Len(initial_lineups) = 0 => fixed_to_zero = {}

\* an attempt after two accepted lineups at which some players, not all, are
\* fixed to 0
C20_Witness ==
    /\ pc = "generate"
    /\ lineup_num < initial_pool_size
    /\ Len(initial_lineups) = 2
    /\ fixed_to_zero # {}
    /\ fixed_to_zero # player_data

\* C17: a second run with the same player pool and configuration accepts the
\* same pool lineups in the same order, gets the same cluster labels and
\* distances and returns the same portfolio in the same order as the first.
C17_RepeatedRunIsIdentical ==
    (pc = "done" /\ previous # <<>>) =>
        /\ initial_lineups = previous[1].pool
        /\ clustering = previous[1].clustering
        /\ portfolio = previous[1].portfolio

\* C22: the two ledgers of the pool loop move together.  An attempt that is
\* accepted appends exactly one lineup to initial_lineups and adds exactly the
\* combination of that lineup to used_combinations; an attempt that fails
\* leaves both as they were; no step removes anything from either; so
\* used_combinations is always the set of the combinations of the pool.
combinations_of_pool == {l.players : l \in Pool}

LedgerStep ==
    /\ Len(initial_lineups') >= Len(initial_lineups)
    /\ SubSeq(initial_lineups', 1, Len(initial_lineups)) = initial_lineups
    /\ used_combinations \subseteq used_combinations'
    /\ Len(initial_lineups') <= Len(initial_lineups) + 1
    /\ IF Len(initial_lineups') = Len(initial_lineups) + 1
       THEN /\ lineup_num' = lineup_num + 1
            /\ status' = "Optimal"
            /\ used_combinations' =
                   used_combinations \cup {initial_lineups'[Len(initial_lineups')].players}
       ELSE used_combinations' = used_combinations
    /\ (lineup_num' = lineup_num + 1 /\ status' # "Optimal")
           => UNCHANGED <<initial_lineups, used_combinations>>

C22_LedgersMoveTogether ==
    /\ [](used_combinations = combinations_of_pool)
    /\ [][LedgerStep]_vars

\* an accepted attempt and, later, a failed one
C22_Witness ==
    /\ Len(initial_lineups) >= 2
    /\ status \in {"Infeasible", "TimedOut"}
    /\ used_combinations = combinations_of_pool

\* C23: whatever labels the clustering gives the pool lineups, the
\* diversifier returns exactly one lineup for every cluster that has a member
\* and none for a cluster without one; the lineup returned for a cluster is a
\* member of it and no other member of the cluster is strictly closer to the
\* centroid; no pool lineup is returned twice; the size of the result is the
\* number of clusters that have a member.
members(cluster_id) ==
    {idx \in 1..Len(initial_lineups) : clustering[1].cluster_labels[idx] = cluster_id}

non_empty_clusters == {c \in 0..(lineup_count - 1) : members(c) # {}}

\* the pool indices a returned lineup may have been copied from
origins(l) ==
    {idx \in 1..Len(initial_lineups) :
        /\ l.cluster_id # <<>>
        /\ idx \in members(l.cluster_id[1])
        /\ l = [initial_lineups[idx] EXCEPT
                    !.cluster_id = l.cluster_id,
                    !.cluster_distance = <<clustering[1].distance[idx]>>]}

C23_OneRepresentativePerNonEmptyCluster ==
    (pc = "done" /\ return_path = "kmeans") =>
        /\ Len(portfolio) = Cardinality(non_empty_clusters)
        /\ \A c \in 0..(lineup_count - 1) :
              Cardinality({n \in 1..Len(portfolio) : portfolio[n].cluster_id = <<c>>})
                  = IF c \in non_empty_clusters THEN 1 ELSE 0
        /\ \A n \in 1..Len(portfolio) :
              \E idx \in origins(portfolio[n]) :
                  \A other \in members(portfolio[n].cluster_id[1]) :
                      ~(clustering[1].distance[other] < clustering[1].distance[idx])
        /\ \A n, m \in 1..Len(portfolio) :
              n # m => origins(portfolio[n]) \cap origins(portfolio[m]) = {}

\* a clustering with an empty cluster and a cluster whose members lie at
\* different distances
C23_Witness ==
    /\ pc = "done" /\ return_path = "kmeans"
    /\ lineup_count = 2
    /\ Cardinality(non_empty_clusters) = 1
    /\ \E c \in non_empty_clusters : \E a, b \in members(c) :
          clustering[1].distance[a] < clustering[1].distance[b]

\* C25: under the default position ranges, when the player data holds only
\* QB, RB, WR, TE and DST players, every pool lineup has exactly 1 QB and
\* 1 DST, and its (RB, WR, TE) counts are (3,3,1), (2,4,1) or (2,3,2).
DefaultShapes == {<<3, 3, 1>>, <<2, 4, 1>>, <<2, 3, 2>>}

C25_DefaultRangesGiveThreeShapes ==
    (/\ constraints.positions = default_constraints.positions
     /\ \A i \in player_data : positionOf[i] \in {"QB", "RB", "WR", "TE", "DST"}) =>
        \A l \in Pool :
            /\ position_count(l.players, "QB") = 1
            /\ position_count(l.players, "DST") = 1
            /\ <<position_count(l.players, "RB"), position_count(l.players, "WR"),
                 position_count(l.players, "TE")>> \in DefaultShapes

\* C26: the exposure histogram reported for a portfolio maps every player
\* that appears in it to the number of lineups of the portfolio that contain
\* the player, so that its counts sum to 9 times the size of the portfolio;
\* the reported largest and smallest exposure and the number of distinct
\* players agree with it; the portfolio itself is left as it was.
portfolio_players == UNION {l.players : l \in Returned}

C26_HistogramCoversEveryPlayer ==
    (pc = "done" /\ portfolio # <<>>) =>
        LET histogram == portfolio_stats.exposure_distribution IN
        /\ DOMAIN histogram = portfolio_players
        /\ \A i \in DOMAIN histogram : histogram[i] = appearances(i)
        /\ SumOver(histogram, DOMAIN histogram) = LINEUP_SIZE * Len(portfolio)
        /\ portfolio_stats.unique_players = Cardinality(DOMAIN histogram)
        /\ portfolio_stats.max_player_exposure =
               Max({histogram[i] : i \in DOMAIN histogram})
        /\ portfolio_stats.min_player_exposure =
               -Max({-histogram[i] : i \in DOMAIN histogram})

\* C27: an attempt that ends Infeasible leaves the ledgers as they were, so
\* the next problem is the same problem: the attempt that follows an
\* Infeasible attempt is Infeasible too, and so on to the end of the run.
C27_InfeasibleThenAlwaysInfeasible ==
    [][(pc = "generate" /\ status = "Infeasible" /\ lineup_num' = lineup_num + 1)
          => status' = "Infeasible"]_vars

\* what the problem of an attempt is built from
problem == <<player_data, constraints, initial_lineups, used_combinations>>

\* the problem built from the present ledgers has no solution
Blocked == pc \in {"generate", "done"} /\ feasible_selections = {}

\* C27, with the solve allowed to hit its time limit: after an Infeasible
\* attempt the problem has no solution, and from a problem without solution
\* on nothing the problem is built from changes and no attempt ends Optimal
\* (each ends Infeasible or runs out of time): the pool never grows again.
C27_NoGrowthAfterInfeasible ==
    /\ []((pc = "generate" /\ status = "Infeasible") => Blocked)
    /\ [][\/ /\ problem' = problem
              /\ ~(lineup_num' = lineup_num + 1 /\ status' = "Optimal")
           \/ ~Blocked]_vars

\* two failed attempts after an Infeasible one, the pool still as it was
C27_Witness ==
    /\ status = "TimedOut"
    /\ Len(initial_lineups) >= 1
    /\ lineup_num >= Len(initial_lineups) + 2
    /\ Blocked

\* C28: whenever the pool holds n >= 2 lineups, every player is in at most
\* floor(max_exposure * n) of them.
C28_PoolExposureWithinFloor ==
    Len(initial_lineups) >= 2 =>
        \A i \in player_data :
            player_usage(i) <=
                (constraints.exposure_limits.max_exposure.num * Len(initial_lineups))
                    \div constraints.exposure_limits.max_exposure.den

\* a pool of two lineups under max_exposure 1/2 with a player used to the limit
C28_Witness ==
    /\ Len(initial_lineups) >= 2
    /\ constraints.exposure_limits.max_exposure = Frac(1, 2)
    /\ \E i \in player_data :
          /\ player_usage(i) >= 1
          /\ player_usage(i) =
                (constraints.exposure_limits.max_exposure.num * Len(initial_lineups))
                    \div constraints.exposure_limits.max_exposure.den

\* C29: with max_exposure below 1/2, once the first lineup is in the pool the
\* exposure constraints of the next attempt fix every player to 0, so the
\* problem of every later attempt has no solution and the pool never holds
\* more than one lineup.
low_max_exposure ==
    2 * constraints.exposure_limits.max_exposure.num
        < constraints.exposure_limits.max_exposure.den

C29_LowMaxExposureStopsAtOne ==
    (pc \in {"generate", "done"} /\ low_max_exposure) =>
        /\ Len(initial_lineups) <= 1
        /\ Len(initial_lineups) = 1 =>
              /\ fixed_to_zero = player_data
              /\ feasible_selections = {}

\* the attempt after the first lineup has ended Infeasible
C29_Witness ==
    /\ pc = "generate"
    /\ low_max_exposure
    /\ Len(initial_lineups) = 1
    /\ lineup_num >= 2
    /\ status = "Infeasible"

\* C30: when the filter of the player data leaves no row (there are no
\* projections, or every row has salary <= 0 or projected_points <= 0) the
\* run raises: it returns no portfolio, not even an empty one, and makes no
\* solve attempt and computes no statistics.
no_row_survives ==
    \A i \in projections : salary(i) <= 0 \/ projected_points(i) <= 0

C30_EmptyPlayerDataRaises ==
    (pc # "idle" /\ no_row_survives) =>
        /\ pc = "raised"
        /\ return_path = "none"
        /\ portfolio = <<>>
        /\ lineup_num = 0
        /\ status = "Unsolved"
        /\ initial_lineups = <<>>
        /\ portfolio_stats = NoStats

\* a run whose projections are all filtered out has raised
C30_Witness ==
    /\ pc = "raised"
    /\ projections # {}
    /\ no_row_survives

\* ------------------------------------------------------------------------
\* A run with lineup_count = 1 on the two squads with no player ever excluded
\* (max_exposure 1) and min_exposure 3/4.  The solves of its first ten
\* attempts are replayed: MinExposureSolves[n] is a selection of maximal
\* objective of the problem built from the first n - 1 of them.  From the
\* eleventh attempt on total_lineups > 10 and the minimum rule applies.
\* ------------------------------------------------------------------------

ThreeQuarterMinimum ==
    [exposure_limits |-> [max_exposure |-> Frac(1, 1), min_exposure |-> Frac(3, 4)]]

MinExposureSolves ==
    <<{10, 11, 12, 13, 14, 15, 16, 18, 25},
      {2, 9, 10, 11, 12, 13, 14, 15, 25},
      {2, 4, 10, 11, 12, 13, 14, 18, 25},
      {4, 9, 10, 11, 12, 13, 14, 16, 25},
      {5, 10, 11, 12, 13, 14, 17, 18, 25},
      {4, 10, 11, 12, 13, 15, 17, 18, 25},
      {2, 5, 10, 11, 12, 13, 15, 18, 25},
      {3, 6, 10, 11, 12, 13, 14, 18, 25},
      {2, 10, 11, 13, 14, 15, 17, 18, 25},
      {3, 4, 10, 11, 13, 14, 15, 18, 25}>>

InitMinExposure ==
    /\ pc = "generate"
    /\ lineup_count = 1
    /\ player_data = prepare_player_data(TwoSquads)
    /\ constraints = setup_constraints(ThreeQuarterMinimum)
    /\ lineup_num = 0
    /\ initial_lineups = <<>>
    /\ used_combinations = {}
    /\ status = "Unsolved"
    /\ timeouts = 0
    /\ budget_exhausted = FALSE
    /\ return_path = "none"
    /\ portfolio = <<>>
    /\ projections = TwoSquads
    /\ portfolio_stats = NoStats
    /\ clustering = <<>>
    /\ previous = <<>>
    /\ qb_stack_trial = <<>>

\* one pass of the loop whose solve ends Optimal with the replayed selection,
\* which satisfies every constraint of the problem built in this state
AttemptReplayed ==
    /\ pc = "generate"
    /\ lineup_num < initial_pool_size
    /\ Len(initial_lineups) < Len(MinExposureSolves)
    /\ LET L == MinExposureSolves[Len(initial_lineups) + 1] IN
        /\ problem_constraints(L, fixed_to_zero, fixed_to_one)
        /\ status' = "Optimal"
        /\ IF Cardinality(L) # LINEUP_SIZE
           THEN UNCHANGED <<initial_lineups, used_combinations>>
           ELSE /\ initial_lineups' = Append(initial_lineups, make_lineup(L))
                /\ used_combinations' = used_combinations \cup {L}
    /\ lineup_num' = lineup_num + 1
    /\ UNCHANGED <<pc, lineup_count, player_data, constraints, timeouts,
                   budget_exhausted, return_path, portfolio,
                   projections, portfolio_stats, clustering, previous, qb_stack_trial>>

\* one pass of the loop whose problem fixes more than 9 variables to 1: with
\* the total fixed to 9 the solve ends Infeasible
AttemptOverconstrained ==
    /\ pc = "generate"
    /\ lineup_num < initial_pool_size
    /\ Cardinality(fixed_to_one) > LINEUP_SIZE
    /\ status' = "Infeasible"
    /\ lineup_num' = lineup_num + 1
    /\ UNCHANGED <<pc, lineup_count, player_data, constraints, initial_lineups,
                   used_combinations, timeouts, budget_exhausted, return_path,
                   portfolio, projections, portfolio_stats, clustering, previous, qb_stack_trial>>

NextMinExposure ==
    \/ AttemptReplayed
    \/ AttemptOverconstrained
    \/ AttemptTimeLimit
    \/ ReturnPool
    \/ KMeansSelect
    \/ KMeansFallback

SpecMinExposure == InitMinExposure /\ [][NextMinExposure]_vars

\* C21: at an attempt with n lineups in the pool the exposure constraints fix
\* a player's variable to 1 exactly when the player is not excluded by the
\* maximum rule, the player's usage is below min_exposure * (n + 1), and
\* n + 1 > 10; while n + 1 <= 10 no variable is fixed to 1.
C21_ForcedInExactlyBelowMinimumShare ==
    pc = "generate" =>
        /\ \A i \in player_data :
              forced_in(i) <=>
                  /\ ~forced_out(i)
                  /\ player_usage(i) * constraints.exposure_limits.min_exposure.den
                         < constraints.exposure_limits.min_exposure.num
                               * (Len(initial_lineups) + 1)
                  /\ Len(initial_lineups) + 1 > MIN_EXPOSURE_SAMPLE
        /\ Len(initial_lineups) + 1 <= MIN_EXPOSURE_SAMPLE => fixed_to_one = {}

\* ------------------------------------------------------------------------
\* The QB-stack constraints on their own: a player pool and a qb_stack_min
\* are chosen, and selections of players of the pool are put to the
\* constraints that _create_qb_stack_constraints builds for that pool.
\* ------------------------------------------------------------------------

MaxStackMin == 2

\* a pool where both quarterbacks have pass-catchers of their team, and a pool
\* whose only quarterback has none
StackPools ==
    {{1, 2, 4, 5, 7, 10, 13},
     {19, 2, 3, 4, 13, 27}}

StackRules(k) ==
    [stacking_rules |-> [qb_stack_min |-> k, game_stack_max |-> 4, team_stack_max |-> 5]]

\* _create_qb_stack_constraints: for each QB row with a team and with WR/TE
\* rows of that team, lpSum(pass catchers) >= qb_var * min_stack_size
create_qb_stack_constraints(L, min_stack_size) ==
    \A qb \in {i \in player_data : positionOf[i] = "QB"} :
        LET qb_team == team(qb)
            pass_catchers ==
                {i \in player_data : team(i) = qb_team /\ positionOf[i] \in {"WR", "TE"}}
            qb_var == IF qb \in L THEN 1 ELSE 0
        IN  \/ qb_team = ""
            \/ pass_catchers = {}
            \/ Cardinality(L \cap pass_catchers) >= qb_var * min_stack_size

InitStacking ==
    /\ pc = "stacking"
    /\ lineup_count = 1
    /\ \E pool \in StackPools, k \in 1..MaxStackMin :
          /\ projections = pool
          /\ player_data = prepare_player_data(pool)
          /\ constraints = setup_constraints(StackRules(k))
    /\ lineup_num = 0
    /\ initial_lineups = <<>>
    /\ used_combinations = {}
    /\ status = "Unsolved"
    /\ timeouts = 0
    /\ budget_exhausted = FALSE
    /\ return_path = "none"
    /\ portfolio = <<>>
    /\ portfolio_stats = NoStats
    /\ clustering = <<>>
    /\ previous = <<>>
    /\ qb_stack_trial = <<>>

\* create_stacking_constraints, the QB-stack part, evaluated on a selection
TryQbStack ==
    /\ pc = "stacking"
    /\ \E L \in SUBSET player_data :
          qb_stack_trial' =
              <<[selection |-> L,
                 admitted |->
                     (constraints.stacking_rules.qb_stack_min > 0
                         => create_qb_stack_constraints(
                                L, constraints.stacking_rules.qb_stack_min))]>>
    /\ UNCHANGED <<pc, lineup_count, player_data, constraints, lineup_num,
                   initial_lineups, used_combinations, status, timeouts,
                   budget_exhausted, return_path, portfolio, projections,
                   portfolio_stats, clustering, previous>>

SpecStacking == InitStacking /\ [][TryQbStack]_vars

\* the selected pass-catchers (WR, TE) of the team of a player
stack_size(L, qb) ==
    Cardinality({i \in L : team(i) = team(qb) /\ positionOf[i] \in {"WR", "TE"}})

\* C24: for every QB of the player pool that has a team, a selection passes
\* the QB-stack constraints only if, when it holds that QB, it holds at least
\* qb_stack_min WR/TE of the QB's team, whatever pass-catchers of that team
\* the pool has and for every qb_stack_min >= 1; a QB outside the selection
\* asks for nothing, so a selection whose QBs all have their stack passes.
C24_SelectedQbRequiresStack ==
    qb_stack_trial # <<>> =>
        LET L == qb_stack_trial[1].selection
            selected_qbs == {i \in L : positionOf[i] = "QB" /\ team(i) # ""}
        IN  qb_stack_trial[1].admitted <=>
                \A qb \in selected_qbs :
                    stack_size(L, qb) >= constraints.stacking_rules.qb_stack_min

====
